---- MODULE Spec2Model ----
(***************************************************************************)
(* State-machine model of frontend/src/components/examples/               *)
(* APIUsageExamples.js: the APIUsageExamples component (six async          *)
(* handlers over the shared api helper, the mount effect and the buttons)  *)
(* and the EventListExample component (one GET /events at mount).          *)
(*                                                                         *)
(* A handler is split where the JavaScript is split: the synchronous       *)
(* prologue up to the `await` is one action ("invoke"), and the code that  *)
(* runs when the promise settles (try-rest or catch, then finally) is one  *)
(* action ("Then" / "Catch").  JavaScript runs each of these to completion *)
(* without interleaving, and React applies the state setters of one such   *)
(* run together, so the state after the action is the state after the last *)
(* setter call of each state variable.                                     *)
(***************************************************************************)
EXTENDS Integers, Sequences, FiniteSets, TLC

\* ------------------------------------------------------------------ bounds
\* Total number of requests APIUsageExamples may dispatch in one behaviour.
MaxRequests == 4

\* ------------------------------------------------------------ input values
\* Bodies the remote API may return for GET /events (arrays of events,
\* an event being represented by its id).
EventLists == {<<>>, <<"e1">>, <<"e1", "e2">>}

\* response.data.id of POST /events, response.data.email of GET /auth/user,
\* response.data.orderId of POST /orders, and the bearer tokens of a caller.
CreatedIds == {"e3"}
Emails == {"user@example.com"}
OrderIds == {"order-1"}
Tokens == {"token-1"}

\* JavaScript `undefined` and `null` (distinct from every string in use).
Undefined == "<undefined>"
Null == "<null>"

\* error.message as the HTTP helper sets it: a default derived from the
\* status code for a response, a transport description when no response.
DefaultMessage(status) ==
    CASE status = 0 -> "Network Error"
      [] status = 404 -> "Request failed with status code 404"
      [] status = 500 -> "Request failed with status code 500"

\* An error with a response (status >= 400); bodyMessage is
\* error.response.data.message, Undefined when the body has no such field.
HttpError(status, bodyMessage) ==
    [message |-> DefaultMessage(status), hasResponse |-> TRUE,
     status |-> status, bodyMessage |-> bodyMessage]

\* An error without a response (connection refused, timeout, DNS).
TransportError ==
    [message |-> DefaultMessage(0), hasResponse |-> FALSE,
     status |-> 0, bodyMessage |-> Undefined]

\* The rejections the api helper may deliver: no response, a response
\* whose body has a message field, and responses whose body has none.
Errors ==
    {TransportError,
     HttpError(404, "not found"),
     HttpError(404, Undefined),
     HttpError(500, Undefined)}

NoError ==
    [message |-> "", hasResponse |-> FALSE, status |-> 200,
     bodyMessage |-> Undefined]

\* ------------------------------------------------------- JavaScript helpers
\* error.response?.data?.message
BodyMessageOf(error) ==
    IF error.hasResponse THEN error.bodyMessage ELSE Undefined

\* a || b on strings: undefined and '' are falsy.
OrElse(a, b) == IF a # Undefined /\ a # "" THEN a ELSE b

\* The status banner text.  A template string is kept as its marker (the
\* leading emoji), its fixed words, and its interpolated value (text or n).
SuccessMark == "check-mark"
ErrorMark == "cross-mark"

EmptyMessage == [marker |-> "", template |-> "", text |-> "", n |-> 0]

FetchedMessage(data) ==
    [marker |-> SuccessMark, template |-> "Fetched _ events", text |-> "",
     n |-> Len(data)]

CreatedMessage(id) ==
    [marker |-> SuccessMark, template |-> "Event created with ID: _",
     text |-> id, n |-> 0]

UpdatedMessage ==
    [marker |-> SuccessMark, template |-> "Event updated successfully",
     text |-> "", n |-> 0]

DeletedMessage ==
    [marker |-> SuccessMark, template |-> "Event deleted successfully",
     text |-> "", n |-> 0]

UserMessage(email) ==
    [marker |-> SuccessMark, template |-> "User data fetched: _",
     text |-> email, n |-> 0]

OrderMessage(orderId) ==
    [marker |-> SuccessMark, template |-> "Order created: _",
     text |-> orderId, n |-> 0]

ErrorBanner(text) ==
    [marker |-> ErrorMark, template |-> "Error: _", text |-> text, n |-> 0]

\* message.startsWith(mark)
StartsWith(m, mark) == m.marker = mark

\* ------------------------------------------------------------------- state
VARIABLES
    mounted,      \* APIUsageExamples: the mount effect has run
    events,       \* APIUsageExamples: useState([])
    loading,      \* APIUsageExamples: useState(false)
    message,      \* APIUsageExamples: useState('')
    requests,     \* every request APIUsageExamples dispatched, in issue order
    invocations,  \* number of handler invocations of APIUsageExamples
    elMounted,    \* EventListExample: the mount effect has run
    elEvents,     \* EventListExample: useState([])
    elLoading,    \* EventListExample: useState(true)
    elError,      \* EventListExample: useState(null)
    elRequests,   \* every request EventListExample dispatched
    last          \* the settlement the api helper delivered last

vars == <<mounted, events, loading, message, requests, invocations,
          elMounted, elEvents, elLoading, elError, elRequests, last>>

apiVars == <<mounted, events, loading, message, requests, invocations>>
elVars == <<elMounted, elEvents, elLoading, elError, elRequests>>

\* ---------------------------------------------------------------- requests
\* One call of the api helper: the request descriptor, the handler that
\* made it, the request (index in the log) whose continuation made it
\* (0: a click or the mount effect), and how it settled.
Request(handler, method, path, origin) ==
    [handler |-> handler, method |-> method, path |-> path,
     origin |-> origin, status |-> "inflight", data |-> <<>>]

InFlight(log) == {r \in 1..Len(log) : log[r].status = "inflight"}
Settled(log) == {r \in 1..Len(log) : log[r].status # "inflight"}

\* The promise of request r resolves; d is the response data when it is
\* the array of GET /events, <<>> for the other requests.
Resolve(log, r, d) ==
    [log EXCEPT ![r] = [@ EXCEPT !.status = "ok", !.data = d]]

\* The promise of request r rejects.
Reject(log, r) ==
    [log EXCEPT ![r] = [@ EXCEPT !.status = "failed"]]

\* What the api helper delivered last: the request that settled, the error
\* it rejected with (NoError when it resolved), and the GET /events of
\* APIUsageExamples that most recently resolved (0: none yet).
Delivered(r, e) == [last EXCEPT !.request = r, !.error = e]
DeliveredEvents(r) == [request |-> r, error |-> NoError, fetched |-> r]

Mutations == {"createEvent", "updateEvent", "deleteEvent"}

\* Requests a behaviour is already committed to: those dispatched plus the
\* refresh each in-flight mutation dispatches if it succeeds.
Committed ==
    Len(requests)
    + Cardinality({r \in InFlight(requests) : requests[r].handler \in Mutations})

Awaiting(r, handler) ==
    /\ r \in InFlight(requests)
    /\ requests[r].handler = handler

\* The value a state variable has after a run that called its setter with
\* each element of calls in turn.
Last(calls) == calls[Len(calls)]

\* --------------------------------------------------------- APIUsageExamples
\* api.get('/events') as fetchEvents dispatches it; origin is the request
\* whose continuation called fetchEvents (0: a click or the mount effect).
FetchEventsRequest(origin) == Request("fetchEvents", "GET", <<"/events">>, origin)

\* fetchEvents as it would be with request deduplication: no GET /events
\* is dispatched while one is already in flight.
fetchEventsDeduplicated ==
    /\ loading' = TRUE
    /\ message' = EmptyMessage
    /\ requests' = IF \E r \in InFlight(requests) : requests[r].handler = "fetchEvents"
                   THEN requests
                   ELSE Append(requests, FetchEventsRequest(0))
    /\ UNCHANGED last
    /\ invocations' = invocations + 1
    /\ UNCHANGED events

\* fetchEvents, lines 15-20: up to the await.
fetchEvents ==
    /\ loading' = TRUE
    /\ message' = EmptyMessage
    /\ requests' = Append(requests, FetchEventsRequest(0))
    /\ UNCHANGED last
    /\ invocations' = invocations + 1
    /\ UNCHANGED events

\* fetchEvents, lines 21-22 and 27: the GET resolved with data d.
fetchEventsThen(r, d) ==
    /\ Awaiting(r, "fetchEvents")
    /\ requests' = Resolve(requests, r, d)
    /\ last' = DeliveredEvents(r)
    /\ events' = d
    /\ message' = FetchedMessage(d)
    /\ loading' = FALSE
    /\ UNCHANGED <<mounted, invocations>>

\* The catch of fetchEvents as it would be if a failed fetch cleared the list.
fetchEventsCatchClearsEvents(r, e) ==
    /\ Awaiting(r, "fetchEvents")
    /\ requests' = Reject(requests, r)
    /\ last' = Delivered(r, e)
    /\ events' = <<>>
    /\ message' = ErrorBanner(e.message)
    /\ loading' = FALSE
    /\ UNCHANGED <<mounted, invocations>>

\* fetchEvents, lines 23-27: the GET rejected with error e.
fetchEventsCatch(r, e) ==
    /\ Awaiting(r, "fetchEvents")
    /\ requests' = Reject(requests, r)
    /\ last' = Delivered(r, e)
    /\ message' = ErrorBanner(e.message)
    /\ loading' = FALSE
    /\ UNCHANGED <<mounted, events, invocations>>

\* createEvent, lines 32-48: up to the await.
createEvent ==
    /\ loading' = TRUE
    /\ message' = EmptyMessage
    /\ requests' = Append(requests, Request("createEvent", "POST", <<"/events">>, 0))
    /\ UNCHANGED last
    /\ invocations' = invocations + 1
    /\ UNCHANGED events

\* The success path of createEvent as it would be if the refresh did not
\* reset the banner (api.get dispatched without fetchEvents' line 17).
createEventThenKeepsMessage(r, id) ==
    /\ Awaiting(r, "createEvent")
    /\ requests' = Append(Resolve(requests, r, <<>>), FetchEventsRequest(r))
    /\ last' = Delivered(r, NoError)
    /\ message' = CreatedMessage(id)
    /\ loading' = Last(<<TRUE, FALSE>>)
    /\ invocations' = invocations + 1
    /\ UNCHANGED <<mounted, events>>

\* createEvent, lines 49-51 and 56: the POST resolved with data.id = id.
\* Line 51 calls fetchEvents without awaiting it: its lines 16-20 run, it
\* suspends at its own await, and createEvent goes on to its finally.
createEventThen(r, id) ==
    /\ Awaiting(r, "createEvent")
    /\ requests' = Append(Resolve(requests, r, <<>>), FetchEventsRequest(r))
    /\ last' = Delivered(r, NoError)
    /\ message' = Last(<<CreatedMessage(id), EmptyMessage>>)
    /\ loading' = Last(<<TRUE, FALSE>>)
    /\ invocations' = invocations + 1
    /\ UNCHANGED <<mounted, events>>

\* The catch of createEvent as it would be if it refreshed the list too.
createEventCatchRefreshes(r, e) ==
    /\ Awaiting(r, "createEvent")
    /\ requests' = Append(Reject(requests, r), FetchEventsRequest(r))
    /\ last' = Delivered(r, e)
    /\ message' = Last(<<ErrorBanner(OrElse(BodyMessageOf(e), e.message)), EmptyMessage>>)
    /\ loading' = Last(<<TRUE, FALSE>>)
    /\ invocations' = invocations + 1
    /\ UNCHANGED <<mounted, events>>

\* createEvent, lines 52-56: the POST rejected with error e.
createEventCatch(r, e) ==
    /\ Awaiting(r, "createEvent")
    /\ requests' = Reject(requests, r)
    /\ last' = Delivered(r, e)
    /\ message' = ErrorBanner(OrElse(BodyMessageOf(e), e.message))
    /\ loading' = FALSE
    /\ UNCHANGED <<mounted, events, invocations>>

\* updateEvent, lines 61-71: up to the await.
updateEvent(eventId) ==
    /\ loading' = TRUE
    /\ message' = EmptyMessage
    /\ requests' = Append(requests, Request("updateEvent", "PATCH", <<"/events", eventId>>, 0))
    /\ UNCHANGED last
    /\ invocations' = invocations + 1
    /\ UNCHANGED events

\* updateEvent, lines 72-74 and 79: the PATCH resolved.
updateEventThen(r) ==
    /\ Awaiting(r, "updateEvent")
    /\ requests' = Append(Resolve(requests, r, <<>>), FetchEventsRequest(r))
    /\ last' = Delivered(r, NoError)
    /\ message' = Last(<<UpdatedMessage, EmptyMessage>>)
    /\ loading' = Last(<<TRUE, FALSE>>)
    /\ invocations' = invocations + 1
    /\ UNCHANGED <<mounted, events>>

\* The catch of updateEvent as it would be if it only logged the error.
updateEventCatchSwallows(r, e) ==
    /\ Awaiting(r, "updateEvent")
    /\ requests' = Reject(requests, r)
    /\ last' = Delivered(r, e)
    /\ loading' = FALSE
    /\ UNCHANGED <<mounted, events, message, invocations>>

\* updateEvent, lines 75-79: the PATCH rejected with error e.
updateEventCatch(r, e) ==
    /\ Awaiting(r, "updateEvent")
    /\ requests' = Reject(requests, r)
    /\ last' = Delivered(r, e)
    /\ message' = ErrorBanner(OrElse(BodyMessageOf(e), e.message))
    /\ loading' = FALSE
    /\ UNCHANGED <<mounted, events, invocations>>

\* deleteEvent, lines 84-89: up to the await.
deleteEvent(eventId) ==
    /\ loading' = TRUE
    /\ message' = EmptyMessage
    /\ requests' = Append(requests, Request("deleteEvent", "DELETE", <<"/events", eventId>>, 0))
    /\ UNCHANGED last
    /\ invocations' = invocations + 1
    /\ UNCHANGED events

\* deleteEvent, lines 90-92 and 97: the DELETE resolved.
deleteEventThen(r) ==
    /\ Awaiting(r, "deleteEvent")
    /\ requests' = Append(Resolve(requests, r, <<>>), FetchEventsRequest(r))
    /\ last' = Delivered(r, NoError)
    /\ message' = Last(<<DeletedMessage, EmptyMessage>>)
    /\ loading' = Last(<<TRUE, FALSE>>)
    /\ invocations' = invocations + 1
    /\ UNCHANGED <<mounted, events>>

\* deleteEvent, lines 93-97: the DELETE rejected with error e.
deleteEventCatch(r, e) ==
    /\ Awaiting(r, "deleteEvent")
    /\ requests' = Reject(requests, r)
    /\ last' = Delivered(r, e)
    /\ message' = ErrorBanner(OrElse(BodyMessageOf(e), e.message))
    /\ loading' = FALSE
    /\ UNCHANGED <<mounted, events, invocations>>

\* fetchWithAuth, lines 102-111: up to the await.
fetchWithAuth(token) ==
    /\ loading' = TRUE
    /\ message' = EmptyMessage
    /\ requests' = Append(requests, Request("fetchWithAuth", "GET", <<"/auth/user", token>>, 0))
    /\ UNCHANGED last
    /\ invocations' = invocations + 1
    /\ UNCHANGED events

\* fetchWithAuth, lines 112 and 117: the GET resolved with data.email.
fetchWithAuthThen(r, email) ==
    /\ Awaiting(r, "fetchWithAuth")
    /\ requests' = Resolve(requests, r, <<>>)
    /\ last' = Delivered(r, NoError)
    /\ message' = UserMessage(email)
    /\ loading' = FALSE
    /\ UNCHANGED <<mounted, events, invocations>>

\* fetchWithAuth, lines 113-117: the GET rejected with error e.
fetchWithAuthCatch(r, e) ==
    /\ Awaiting(r, "fetchWithAuth")
    /\ requests' = Reject(requests, r)
    /\ last' = Delivered(r, e)
    /\ message' = ErrorBanner(OrElse(BodyMessageOf(e), e.message))
    /\ loading' = FALSE
    /\ UNCHANGED <<mounted, events, invocations>>

\* submitOrder, lines 122-141: up to the await.
submitOrder ==
    /\ loading' = TRUE
    /\ message' = EmptyMessage
    /\ requests' = Append(requests, Request("submitOrder", "POST", <<"/orders">>, 0))
    /\ UNCHANGED last
    /\ invocations' = invocations + 1
    /\ UNCHANGED events

\* submitOrder, lines 142 and 147: the POST resolved with data.orderId.
submitOrderThen(r, orderId) ==
    /\ Awaiting(r, "submitOrder")
    /\ requests' = Resolve(requests, r, <<>>)
    /\ last' = Delivered(r, NoError)
    /\ message' = OrderMessage(orderId)
    /\ loading' = FALSE
    /\ UNCHANGED <<mounted, events, invocations>>

\* The catch of submitOrder as it would be without the finally block.
submitOrderCatchNoFinally(r, e) ==
    /\ Awaiting(r, "submitOrder")
    /\ requests' = Reject(requests, r)
    /\ last' = Delivered(r, e)
    /\ message' = ErrorBanner(OrElse(BodyMessageOf(e), e.message))
    /\ UNCHANGED <<mounted, events, loading, invocations>>

\* submitOrder, lines 143-147: the POST rejected with error e.
submitOrderCatch(r, e) ==
    /\ Awaiting(r, "submitOrder")
    /\ requests' = Reject(requests, r)
    /\ last' = Delivered(r, e)
    /\ message' = ErrorBanner(OrElse(BodyMessageOf(e), e.message))
    /\ loading' = FALSE
    /\ UNCHANGED <<mounted, events, invocations>>

\* The mount effect, lines 152-154.  The two components are the default
\* exports of two separate pages and share no state: a behaviour renders
\* one of them.
Mount ==
    /\ ~mounted
    /\ ~elMounted
    /\ mounted' = TRUE
    /\ fetchEvents

\* A button can be clicked once the component is mounted and while it is
\* not disabled (disabled={loading}); cost is the number of requests the
\* click may lead to.
CanClick(cost) ==
    /\ mounted
    /\ ~loading
    /\ Committed + cost <= MaxRequests

\* The "Fetch Events (GET)" button, lines 172-178.
ClickFetchEvents == CanClick(1) /\ fetchEvents /\ UNCHANGED mounted

\* The "Create Event (POST)" button, lines 180-186.
ClickCreateEvent == CanClick(2) /\ createEvent /\ UNCHANGED mounted

\* The "Submit Order (POST)" button, lines 188-194.
ClickSubmitOrder == CanClick(1) /\ submitOrder /\ UNCHANGED mounted

\* The "Update" button of a listed event, lines 208-214.
ClickUpdate ==
    /\ CanClick(2)
    /\ \E i \in 1..Len(events) : updateEvent(events[i])
    /\ UNCHANGED mounted

\* The "Delete" button of a listed event, lines 216-222.
ClickDelete ==
    /\ CanClick(2)
    /\ \E i \in 1..Len(events) : deleteEvent(events[i])
    /\ UNCHANGED mounted

\* fetchWithAuth has no button in the component; a caller is taken to
\* invoke it under the same discipline as the buttons.
CallFetchWithAuth ==
    /\ CanClick(1)
    /\ \E token \in Tokens : fetchWithAuth(token)
    /\ UNCHANGED mounted

\* The continuations, for whichever request of the handler is in flight
\* and whatever the remote API answers.
FetchEventsSettles ==
    \E r \in 1..Len(requests) :
        \/ \E d \in EventLists : fetchEventsThen(r, d)
        \/ \E e \in Errors : fetchEventsCatch(r, e)

CreateEventSettles ==
    \E r \in 1..Len(requests) :
        \/ \E id \in CreatedIds : createEventThen(r, id)
        \/ \E e \in Errors : createEventCatch(r, e)

UpdateEventSettles ==
    \E r \in 1..Len(requests) :
        \/ updateEventThen(r)
        \/ \E e \in Errors : updateEventCatch(r, e)

DeleteEventSettles ==
    \E r \in 1..Len(requests) :
        \/ deleteEventThen(r)
        \/ \E e \in Errors : deleteEventCatch(r, e)

FetchWithAuthSettles ==
    \E r \in 1..Len(requests) :
        \/ \E email \in Emails : fetchWithAuthThen(r, email)
        \/ \E e \in Errors : fetchWithAuthCatch(r, e)

SubmitOrderSettles ==
    \E r \in 1..Len(requests) :
        \/ \E orderId \in OrderIds : submitOrderThen(r, orderId)
        \/ \E e \in Errors : submitOrderCatch(r, e)

\* Some request of APIUsageExamples settles and its continuation runs.
Settle ==
    \/ FetchEventsSettles
    \/ CreateEventSettles
    \/ UpdateEventSettles
    \/ DeleteEventSettles
    \/ FetchWithAuthSettles
    \/ SubmitOrderSettles

\* --------------------------------------------------------- EventListExample
\* The mount effect, lines 298-300: api.get('/events') is dispatched.
EventListMount ==
    /\ ~elMounted
    /\ ~mounted
    /\ elMounted' = TRUE
    /\ elRequests' = Append(elRequests, Request("EventListExample", "GET", <<"/events">>, 0))
    /\ UNCHANGED last
    /\ UNCHANGED <<elEvents, elLoading, elError>>

\* The .then callback, lines 301-304.
EventListThen(d) ==
    /\ 1 \in InFlight(elRequests)
    /\ elRequests' = Resolve(elRequests, 1, d)
    /\ last' = Delivered(1, NoError)
    /\ elEvents' = d
    /\ elLoading' = FALSE
    /\ UNCHANGED <<elMounted, elError>>

\* The .catch callback as it would be without its setLoading(false).
EventListCatchKeepsLoading(e) ==
    /\ 1 \in InFlight(elRequests)
    /\ elRequests' = Reject(elRequests, 1)
    /\ last' = Delivered(1, e)
    /\ elError' = e.message
    /\ UNCHANGED <<elMounted, elEvents, elLoading>>

\* The .catch callback, lines 305-309.
EventListCatch(e) ==
    /\ 1 \in InFlight(elRequests)
    /\ elRequests' = Reject(elRequests, 1)
    /\ last' = Delivered(1, e)
    /\ elError' = e.message
    /\ elLoading' = FALSE
    /\ UNCHANGED <<elMounted, elEvents>>

EventListSettle ==
    \/ \E d \in EventLists : EventListThen(d)
    \/ \E e \in Errors : EventListCatch(e)

\* ------------------------------------------------------------ specification
Init ==
    /\ mounted = FALSE
    /\ events = <<>>
    /\ loading = FALSE
    /\ message = EmptyMessage
    /\ requests = <<>>
    /\ invocations = 0
    /\ elMounted = FALSE
    /\ elEvents = <<>>
    /\ elLoading = TRUE
    /\ elError = Null
    /\ elRequests = <<>>
    /\ last = [request |-> 0, error |-> NoError, fetched |-> 0]

Next ==
    \/ (Mount /\ UNCHANGED elVars)
    \/ (ClickFetchEvents /\ UNCHANGED elVars)
    \/ (ClickCreateEvent /\ UNCHANGED elVars)
    \/ (ClickSubmitOrder /\ UNCHANGED elVars)
    \/ (ClickUpdate /\ UNCHANGED elVars)
    \/ (ClickDelete /\ UNCHANGED elVars)
    \/ (CallFetchWithAuth /\ UNCHANGED elVars)
    \/ (FetchEventsSettles /\ UNCHANGED elVars)
    \/ (CreateEventSettles /\ UNCHANGED elVars)
    \/ (UpdateEventSettles /\ UNCHANGED elVars)
    \/ (DeleteEventSettles /\ UNCHANGED elVars)
    \/ (FetchWithAuthSettles /\ UNCHANGED elVars)
    \/ (SubmitOrderSettles /\ UNCHANGED elVars)
    \/ (EventListMount /\ UNCHANGED apiVars)
    \/ (EventListSettle /\ UNCHANGED apiVars)

Spec == Init /\ [][Next]_vars

\* Every dispatched request eventually settles: the transport delivers a
\* response or an error for each, and the continuation then runs.
FairSpec ==
    /\ Spec
    /\ WF_vars(Settle /\ UNCHANGED elVars)
    /\ WF_vars(EventListSettle /\ UNCHANGED apiVars)

TypeOK ==
    /\ mounted \in BOOLEAN
    /\ loading \in BOOLEAN
    /\ events \in EventLists
    /\ Len(requests) <= MaxRequests
    /\ invocations \in 0..MaxRequests
    /\ elLoading \in BOOLEAN
    /\ elEvents \in EventLists
    /\ Len(elRequests) <= 1

\* ------------------------------------------------------------------ claims
\* The request whose continuation ran in this step (each request settles
\* once, so the index of the last settlement changes exactly then).
SettledNow == last'.request # last.request

FetchRequests == {r \in 1..Len(requests) : requests[r].handler = "fetchEvents"}
Succeeded == {r \in 1..Len(requests) : requests[r].status = "ok"}
Failed == {r \in 1..Len(requests) : requests[r].status = "failed"}
Refreshes(r) == {q \in 1..Len(requests) : requests[q].origin = r}

\* C1: in APIUsageExamples the displayed events list always equals the
\* response data of the GET /events that most recently resolved
\* successfully, or the initial empty list when none has; failed fetches and
\* every outcome of the other handlers leave it alone.
C1_EventsAreLastSuccessfulFetch ==
    events = IF last.fetched = 0 THEN <<>> ELSE requests[last.fetched].data

\* C1 witness: a non-empty list is shown although requests issued after the
\* fetch that produced it have failed and succeeded.
C1_Witness ==
    /\ mounted
    /\ last.fetched # 0
    /\ events # <<>>
    /\ \E r \in Failed : r > last.fetched /\ requests[r].handler = "fetchEvents"
    /\ \E r \in Succeeded : r > last.fetched /\ requests[r].handler # "fetchEvents"

\* C2: for every handler of APIUsageExamples, when the request fails with a
\* response whose body carries a message field, the banner shows that body
\* message; the default message is used only when the body has none.
C2_BodyMessageSurfaced ==
    [][(SettledNow /\ mounted /\ last'.error # NoError /\ last'.error.hasResponse)
         => message'.text = IF last'.error.bodyMessage # Undefined
                            THEN last'.error.bodyMessage
                            ELSE last'.error.message]_vars

\* C3: a refresh GET /events is dispatched only by the continuation of a
\* mutation that resolved successfully, exactly one per such mutation;
\* a failed mutation, fetchEvents, fetchWithAuth and submitOrder have no
\* follow-up request.
C3_RefreshOnlyAfterSuccess ==
    \A r \in 1..Len(requests) :
        /\ requests[r].origin # 0 =>
              /\ requests[r].origin < r
              /\ requests[r].handler = "fetchEvents"
              /\ requests[requests[r].origin].handler \in Mutations
              /\ requests[requests[r].origin].status = "ok"
        /\ Cardinality(Refreshes(r)) =
              IF requests[r].handler \in Mutations /\ requests[r].status = "ok"
              THEN 1 ELSE 0

\* C3 witness: one mutation failed, another succeeded and was followed by
\* its refresh.
C3_Witness ==
    /\ \E r \in Failed : requests[r].handler \in Mutations
    /\ \E r \in Succeeded : requests[r].handler \in Mutations /\ Refreshes(r) # {}

\* C4: the number of requests dispatched equals the number of handler
\* invocations: no retry of a failed request, no request saved by caching
\* or deduplication.
C4_OneRequestPerInvocation == Len(requests) = invocations

\* C4 witness: two GET /events are in flight at once while a list is
\* already populated.
C4_Witness ==
    /\ events # <<>>
    /\ Cardinality(InFlight(requests) \cap FetchRequests) >= 2

\* C4 witness of the no-retry case: a failed request has been settled.
C4_FailedWitness == Failed # {}

\* C5: when the continuation of a failed request has run, the failure is
\* shown: the banner of APIUsageExamples starts with the error marker (and
\* so is no success message), the error of EventListExample is non-null.
C5_NoErrorSwallowed ==
    [][(SettledNow /\ last'.error # NoError)
         => IF mounted
            THEN StartsWith(message', ErrorMark)
            ELSE elError' # Null]_vars

\* C5 witness: an updateEvent request has just failed on a transport error.
C5_Witness ==
    /\ last.request \in Failed
    /\ requests[last.request].handler = "updateEvent"
    /\ ~last.error.hasResponse
    /\ StartsWith(message, ErrorMark)

\* C6: whenever no request of APIUsageExamples is in flight, loading is
\* false; and, every request eventually settling, loading always becomes
\* false again.
C6_UsableAfterAnyOutcome ==
    /\ [](InFlight(requests) = {} => ~loading)
    /\ [](loading => <>(~loading))

\* C6 witness: successes and failures have both happened, nothing is in
\* flight, and the buttons are enabled.
C6_Witness ==
    /\ InFlight(requests) = {}
    /\ ~loading
    /\ \E r \in Failed : requests[r].handler = "submitOrder"
    /\ \E r \in Succeeded : requests[r].handler \in Mutations

\* C7: loading is true whenever a request of APIUsageExamples is in flight,
\* and at most one request is in flight at any time.
C7_LoadingWhileInFlight ==
    /\ InFlight(requests) # {} => loading
    /\ Cardinality(InFlight(requests)) <= 1

\* C8: once all requests have settled, the events list equals the data of
\* the most recently issued GET /events that succeeded.
C8_LatestIssuedFetchWins ==
    (InFlight(requests) = {} /\ FetchRequests \cap Succeeded # {})
        => events = requests[CHOOSE r \in FetchRequests \cap Succeeded :
                                \A q \in FetchRequests \cap Succeeded : q <= r].data

\* C9: EventListExample dispatches exactly one GET /events at mount; until
\* it settles loading is true, events empty and error null; once settled
\* loading is false and either events is the response data with error null,
\* or error is the error's message with events empty; loading is never true
\* with a non-null error.
C9_EventListThreeStates ==
    /\ Len(elRequests) = (IF elMounted THEN 1 ELSE 0)
    /\ Settled(elRequests) = {} =>
          elLoading /\ elEvents = <<>> /\ elError = Null
    /\ \A r \in Settled(elRequests) :
          /\ ~elLoading
          /\ elRequests[r].status = "ok" =>
                elEvents = elRequests[r].data /\ elError = Null
          /\ elRequests[r].status = "failed" =>
                elError = last.error.message /\ elError # Null /\ elEvents = <<>>
    /\ ~(elLoading /\ elError # Null)

\* C9 witness: the mount request has failed.
C9_Witness ==
    /\ elMounted
    /\ 1 \in Settled(elRequests)
    /\ elRequests[1].status = "failed"
    /\ ~elLoading

\* C9 witness of the success outcome: the mount request resolved with a
\* non-empty list.
C9_SuccessWitness ==
    /\ elMounted
    /\ elRequests[1].status = "ok"
    /\ elEvents # <<>>

\* The banners the mutations set at lines 49, 72 and 90.
MutationMessages ==
    {CreatedMessage(id) : id \in CreatedIds} \cup {UpdatedMessage, DeletedMessage}

\* C10: the continuation of a successful createEvent, updateEvent or
\* deleteEvent leaves the banner empty; when the refresh settles the banner
\* is the result of the fetch; no state shows a created/updated/deleted
\* banner.
C10_MutationMessageOverwritten ==
    [][/\ message' \notin MutationMessages
       /\ (SettledNow /\ mounted) =>
             LET r == last'.request IN
             /\ (requests'[r].handler \in Mutations /\ requests'[r].status = "ok")
                   => message' = EmptyMessage
             /\ requests'[r].origin # 0
                   => \/ message' = FetchedMessage(requests'[r].data)
                         /\ requests'[r].status = "ok"
                      \/ message' = ErrorBanner(last'.error.message)
                         /\ requests'[r].status = "failed"]_vars

\* C10 witness: a mutation succeeded, its refresh has just resolved, and
\* the banner shows the fetched count.
C10_Witness ==
    /\ last.request \in Succeeded
    /\ requests[last.request].origin # 0
    /\ message = FetchedMessage(requests[last.request].data)

====
